---------------------------- MODULE Spec2Model ----------------------------
(***************************************************************************)
(* A model of the revenue growth engine: PricingStrategist (the clamped    *)
(* linear price), MarketAnalyzer (the adapter over the two collaborators)  *)
(* and RevenueEngine.run_revenue_cycle (the four-stage cycle).             *)
(*                                                                         *)
(* Numbers are fixed point, in hundredths: 1.0 is 100, 0.05 is 5.  The     *)
(* scores the model draws are multiples of 0.5, so every product below is  *)
(* exact.  float('inf') is Inf, a value above every other value.  NaN is   *)
(* not modelled.                                                           *)
(***************************************************************************)
EXTENDS Integers, Sequences, FiniteSets, TLC

VARIABLES
    min_price,      \* PricingStrategist.min_price
    max_price,      \* PricingStrategist.max_price
    ctor_ordered,   \* whether the constructor's arguments had min <= max
    last,           \* the last PricingStrategist call: arguments, bounds before, result
    pc,             \* run_revenue_cycle: the statement it is at
    data,           \* run_revenue_cycle's local `data`
    sentiment_score,\* run_revenue_cycle's local `sentiment_score`
    forecast,       \* run_revenue_cycle's local `forecast`
    optimal_price,  \* run_revenue_cycle's local `optimal_price`
    exc,            \* the exception in flight in run_revenue_cycle
    outcome,        \* what run_revenue_cycle gave its caller
    stages,         \* the stages invoked in this cycle, with argument and result
    log,            \* the log records written in this cycle
    c_pc,           \* race: the calculating thread's position
    c_optimal,      \* race: its local optimal_price
    c_min,          \* race: the min_price it read
    c_max,          \* race: the max_price it read
    c_ret,          \* race: the price it returned
    u_pc,           \* race: the updating thread's position
    u_args,         \* race: update_constraints' arguments
    pre             \* race: the bounds before the update started

pricing_vars == <<min_price, max_price, ctor_ordered, last>>
cycle_vars   == <<pc, data, sentiment_score, forecast, optimal_price, exc, outcome,
                  stages, log>>
race_vars    == <<c_pc, c_optimal, c_min, c_max, c_ret, u_pc, u_args, pre>>
vars         == <<pricing_vars, cycle_vars, race_vars>>

---------------------------------------------------------------------------
(* Bounds of the model *)

\* sentiment scores range over -MaxScore.0 .. MaxScore.0 in steps of 0.5
MaxScore == 2
\* price bounds range over -0.1, 0.0, Inf and DefaultMin + 0.1 * (0..BoundSteps)
BoundSteps == 3
\* wall-clock readings range over 1..MaxClock
MaxClock == 2

(* Program constants, in hundredths *)
BasePrice       == 100
SentimentWeight == 10
TrendBonus      == 5
DefaultMin      == 90
DefaultMax      == 110
Inf             == 1000000

---------------------------------------------------------------------------
(* Values *)

\* Optional[...]: None is the empty tuple, a given value v is <<v>>
None    == <<>>
Some(v) == <<v>>

\* a value of a Dict[str, Any]: a number, or something that is not a number
Num(v) == [num |-> TRUE, v |-> v]
NaV    == [num |-> FALSE, v |-> 0]

\* float * float in fixed point
FMul(a, b) == (a * b) \div 100

\* Python's max(a, b) and min(a, b): the first argument unless the second beats it
PyMax(a, b) == IF b > a THEN b ELSE a
PyMin(a, b) == IF b < a THEN b ELSE a

\* dict.get(key, default)
Get(d, key, default) == IF key \in DOMAIN d THEN d[key] ELSE default

ScoreVals == {50 * k : k \in (-2 * MaxScore)..(2 * MaxScore)}
BoundVals == {-10, 0, Inf} \cup {DefaultMin + 10 * k : k \in 0..BoundSteps}
OptBounds == {None} \cup {Some(b) : b \in BoundVals}
DictVals  == {Num(v) : v \in ScoreVals} \cup {NaV}
Keys      == {"sentiment_score", "forecast"}
\* the mappings calculate_optimal_price is given: each key present or absent
MarketData == UNION {[K -> DictVals] : K \in SUBSET Keys}
EmptyDict  == [k \in {} |-> NaV]

\* the result of a call: a returned value, or a raised error; with the log
\* records the call wrote
Ok(v)           == [ok |-> TRUE, val |-> <<v>>, err |-> "", logs |-> <<>>]
Raised(e, logs) == [ok |-> FALSE, val |-> <<>>, err |-> e, logs |-> logs]
LogError(who)   == <<[level |-> "error", by |-> who]>>

---------------------------------------------------------------------------
(* PricingStrategist *)

\* the clamp without its lower bound
ClampNoMin(optimal, lo, hi) == PyMin(optimal, hi)

\* the clamp with the upper bound applied last
ClampMaxLast(optimal, lo, hi) == PyMin(PyMax(optimal, lo), hi)

\* optimal_price = max(self.min_price, min(optimal_price, self.max_price))
ApplyConstraints(optimal, lo, hi) == PyMax(lo, PyMin(optimal, hi))

\* the trend bonus granted for forecast >= 0
TrendImpactGE(f) == (IF f >= 0 THEN 1 ELSE 0) * TrendBonus

\* trend_impact = (market_data.get('forecast', 0) > 0) * 0.05
TrendImpact(f) == (IF f > 0 THEN 1 ELSE 0) * TrendBonus

\* sentiment_impact = market_data.get('sentiment_score', 0) * 0.1
SentimentImpact(s) == FMul(s, SentimentWeight)

\* base_price + sentiment_impact + trend_impact
OptimalPrice(s, f) == BasePrice + SentimentImpact(s) + TrendImpact(f)

\* calculate_optimal_price(market_data) under the bounds lo, hi; an operand
\* that is not a number raises TypeError, which is logged and raised again
calculate_optimal_price(md, lo, hi) ==
    LET s == Get(md, "sentiment_score", Num(0))
        f == Get(md, "forecast", Num(0))
    IN IF ~s.num \/ ~f.num
         THEN Raised("TypeError", LogError("PricingStrategist"))
         ELSE Ok(ApplyConstraints(OptimalPrice(s.v, f.v), lo, hi))

\* update_constraints that stores new_min as given
UpdateMinUnclamped(cur, new_min) == IF new_min # None THEN new_min[1] ELSE cur

\* if new_min is not None: self.min_price = max(new_min, 0.0)
UpdateMin(cur, new_min) == IF new_min # None THEN PyMax(new_min[1], 0) ELSE cur

\* if new_max is not None: self.max_price = min(new_max, float('inf'))
UpdateMax(cur, new_max) == IF new_max # None THEN PyMin(new_max[1], Inf) ELSE cur

Call(op, md, new_min, new_max, res) ==
    [op |-> op, md |-> md, new_min |-> new_min, new_max |-> new_max,
     pre_min |-> min_price, pre_max |-> max_price, res |-> res]

\* PricingStrategist(min_price, max_price): the bounds are stored as given
PricingInit ==
    \E lo \in BoundVals, hi \in BoundVals :
        /\ min_price = lo
        /\ max_price = hi
        /\ ctor_ordered = (lo <= hi)
        /\ last = [op |-> "init", md |-> EmptyDict, new_min |-> Some(lo),
                   new_max |-> Some(hi), pre_min |-> lo, pre_max |-> hi,
                   res |-> Ok(0)]

CycleIdle ==
    /\ pc = "idle"
    /\ data = None
    /\ sentiment_score = None
    /\ forecast = None
    /\ optimal_price = None
    /\ exc = None
    /\ outcome = None
    /\ stages = <<>>
    /\ log = <<>>

RaceIdle ==
    /\ c_pc = "off"
    /\ c_optimal = 0
    /\ c_min = None
    /\ c_max = None
    /\ c_ret = None
    /\ u_pc = "off"
    /\ u_args = <<None, None>>
    /\ pre = <<0, 0>>

Init == PricingInit /\ CycleIdle /\ RaceIdle

\* a call of calculate_optimal_price
CalculateOptimalPrice ==
    \E md \in MarketData :
        /\ last' = Call("calc", md, None, None,
                        calculate_optimal_price(md, min_price, max_price))
        /\ UNCHANGED <<min_price, max_price, ctor_ordered>>
        /\ UNCHANGED <<cycle_vars, race_vars>>

\* a call of update_constraints
UpdateConstraints ==
    \E new_min \in OptBounds, new_max \in OptBounds :
        /\ min_price' = UpdateMin(min_price, new_min)
        /\ max_price' = UpdateMax(max_price, new_max)
        /\ last' = Call("update", EmptyDict, new_min, new_max, Ok(0))
        /\ UNCHANGED ctor_ordered
        /\ UNCHANGED <<cycle_vars, race_vars>>

Next == CalculateOptimalPrice \/ UpdateConstraints

Spec == Init /\ [][Next]_vars

---------------------------------------------------------------------------
(* The collaborators: what SentimentAnalyzer and TrendPredictor may answer *)

\* an object get_historical_data returns: a DataFrame with a news column, a
\* DataFrame without one, or something that is not a DataFrame
Frame(cols, news) == [isdf |-> TRUE, cols |-> cols, news |-> news]
NotAFrame         == [isdf |-> FALSE, cols |-> {}, news |-> ""]
HistoricalAnswers ==
    {Ok(Frame({"news", "close"}, n)) : n \in {"bullish", "bearish"}}
        \cup {Ok(Frame({"close"}, "")), Ok(NotAFrame), Raised("ConnectionError", <<>>)}

\* SentimentAnalyzer.analyze: a score, something that is not a number, or an error
AnalyzeAnswers ==
    {Ok(Num(100 * k)) : k \in (-1)..MaxScore}
        \cup {Ok(NaV), Raised("SentimentError", <<>>)}

\* TrendPredictor.predict: a series of numbers, or an error
PredictAnswers ==
    {Ok(<<100>>), Ok(<<-100, 100>>), Ok(<<-300, -100>>), Raised("PredictError", <<>>)}

Markets    == {"BTC/USDT"}
Timeframes == {"1D", "1H"}

RECURSIVE Sum(_)
Sum(xs) == IF xs = <<>> THEN 0 ELSE Head(xs) + Sum(Tail(xs))

Abs(x) == IF x < 0 THEN -x ELSE x

\* np.mean
Mean(xs) == Sum(xs) \div Len(xs)

\* np.std: the population standard deviation, rounded down
Std(xs) ==
    LET m   == Mean(xs)
        var == Sum([i \in DOMAIN xs |-> (xs[i] - m) * (xs[i] - m)]) \div Len(xs)
        top == Sum([i \in DOMAIN xs |-> Abs(xs[i] - m)])
    IN CHOOSE r \in 0..top : r * r <= var /\ var < (r + 1) * (r + 1)

---------------------------------------------------------------------------
(* MarketAnalyzer *)

\* fetch_market_data without the isinstance check
FetchUnchecked(answer) ==
    IF ~answer.ok
      THEN Raised(answer.err, LogError("MarketAnalyzer"))
      ELSE Ok(answer.val[1])

\* fetch_market_data: the collaborator's answer is returned if it is a
\* DataFrame; otherwise ValueError; every error is logged and raised again
fetch_market_data(answer) ==
    IF ~answer.ok
      THEN Raised(answer.err, LogError("MarketAnalyzer"))
      ELSE IF ~answer.val[1].isdf
        THEN Raised("ValueError", LogError("MarketAnalyzer"))
        ELSE Ok(answer.val[1])

\* analyze_sentiment: the collaborator's answer, untouched and unlogged
analyze_sentiment(answer) == answer

\* predict_market_trend: mean, spread and time of the predicted series; an
\* error is logged and raised again
predict_market_trend(answer, now) ==
    IF ~answer.ok
      THEN Raised(answer.err, LogError("MarketAnalyzer"))
      ELSE Ok([forecast |-> Mean(answer.val[1]),
               confidence |-> Std(answer.val[1]),
               timestamp |-> now])

---------------------------------------------------------------------------
(* RevenueEngine.run_revenue_cycle *)

LogInfo == <<[level |-> "info", by |-> "RevenueEngine"]>>

\* the stage that follows, with sentiment and prediction exchanged
SuccessorSwapped(stage) ==
    CASE stage = "fetch"     -> "predict"
      [] stage = "predict"   -> "sentiment"
      [] stage = "sentiment" -> "price"
      [] stage = "price"     -> "result"

\* the statement that follows a stage in the try block
Successor(stage) ==
    CASE stage = "fetch"     -> "sentiment"
      [] stage = "sentiment" -> "predict"
      [] stage = "predict"   -> "price"
      [] stage = "price"     -> "result"

\* a try block that runs a failed stage again
NextPcRetry(stage, ok) == IF ok THEN Successor(stage) ELSE stage

\* where control goes after a stage: on, or out of the try block
NextPc(stage, ok) == IF ok THEN Successor(stage) ELSE "except"

\* {'sentiment_score': sentiment_score, 'forecast': forecast['forecast']}
PricingInput(score, fc) ==
    [k \in Keys |-> IF k = "sentiment_score" THEN score ELSE Num(fc.forecast)]

\* whether the name datetime is bound in revenue_engine: its imports are
\* logging, Dict, Any, MarketAnalyzer and PricingStrategist
DatetimeBound == "datetime" \in {"logging", "Dict", "Any", "MarketAnalyzer",
                                 "PricingStrategist"}

\* the return statement's record; evaluating an unbound name raises NameError
BuildResult(price, fc, now) ==
    IF ~DatetimeBound
      THEN Raised("NameError", <<>>)
      ELSE Ok([optimal_price |-> price, market_forecast |-> fc.forecast,
               timestamp |-> now])

\* the except clause of run_revenue_cycle: the error is logged and raised again
HandleException(e) == [logs |-> LogError("RevenueEngine"), err |-> e]

Stage(name, arg, answer, res) ==
    [name |-> name, arg |-> arg, answer |-> answer, res |-> res]

\* RevenueEngine(api_key): the strategist is built with its default bounds
EngineInit ==
    /\ min_price = DefaultMin
    /\ max_price = DefaultMax
    /\ ctor_ordered = TRUE
    /\ last = [op |-> "init", md |-> EmptyDict, new_min |-> Some(DefaultMin),
               new_max |-> Some(DefaultMax), pre_min |-> DefaultMin,
               pre_max |-> DefaultMax, res |-> Ok(0)]

CycleInit == EngineInit /\ CycleIdle /\ RaceIdle

\* step 1: fetch_market_data(market, timeframe); a call starts here
Fetch ==
    /\ pc \in {"idle", "done"}
    /\ \E market \in Markets, timeframe \in Timeframes, answer \in HistoricalAnswers :
         LET res == fetch_market_data(answer)
         IN /\ stages' = <<Stage("fetch", <<market, timeframe>>, answer, res)>>
            /\ log' = LogInfo \o res.logs
            /\ data' = IF res.ok THEN res.val ELSE None
            /\ exc' = IF res.ok THEN None ELSE Some(res.err)
            /\ pc' = NextPc("fetch", res.ok)
    /\ sentiment_score' = None
    /\ forecast' = None
    /\ optimal_price' = None
    /\ outcome' = None
    /\ UNCHANGED <<pricing_vars, race_vars>>

\* step 2: analyze_sentiment(data['news']); a frame without the column raises
\* KeyError before the analyzer is called
Sentiment ==
    /\ pc = "sentiment"
    /\ IF "news" \notin data[1].cols
         THEN /\ log' = log \o LogInfo
              /\ exc' = Some("KeyError")
              /\ pc' = "except"
              /\ UNCHANGED <<stages, sentiment_score>>
         ELSE \E answer \in AnalyzeAnswers :
                LET res == analyze_sentiment(answer)
                IN /\ stages' = Append(stages,
                                       Stage("sentiment", data[1].news, answer, res))
                   /\ log' = log \o LogInfo \o res.logs
                   /\ sentiment_score' = IF res.ok THEN res.val ELSE None
                   /\ exc' = IF res.ok THEN None ELSE Some(res.err)
                   /\ pc' = NextPc("sentiment", res.ok)
    /\ UNCHANGED <<data, forecast, optimal_price, outcome>>
    /\ UNCHANGED <<pricing_vars, race_vars>>

\* step 3: predict_market_trend(data)
Predict ==
    /\ pc = "predict"
    /\ \E answer \in PredictAnswers, now \in 1..MaxClock :
         LET res == predict_market_trend(answer, now)
         IN /\ stages' = Append(stages, Stage("predict", data[1], answer, res))
            /\ log' = log \o LogInfo \o res.logs
            /\ forecast' = IF res.ok THEN res.val ELSE None
            /\ exc' = IF res.ok THEN None ELSE Some(res.err)
            /\ pc' = NextPc("predict", res.ok)
    /\ UNCHANGED <<data, sentiment_score, optimal_price, outcome>>
    /\ UNCHANGED <<pricing_vars, race_vars>>

\* step 4: calculate_optimal_price on the score and the forecast
Price ==
    /\ pc = "price"
    /\ LET md  == PricingInput(sentiment_score[1], forecast[1])
           res == calculate_optimal_price(md, min_price, max_price)
       IN /\ stages' = Append(stages, Stage("price", md, Ok(0), res))
          /\ log' = log \o LogInfo \o res.logs
          /\ optimal_price' = IF res.ok THEN res.val ELSE None
          /\ exc' = IF res.ok THEN None ELSE Some(res.err)
          /\ pc' = NextPc("price", res.ok)
          /\ last' = Call("calc", md, None, None, res)
    /\ UNCHANGED <<data, sentiment_score, forecast, outcome>>
    /\ UNCHANGED <<min_price, max_price, ctor_ordered, race_vars>>

\* the return statement
Result ==
    /\ pc = "result"
    /\ \E now \in 1..MaxClock :
         LET res == BuildResult(optimal_price[1], forecast[1], now)
         IN IF res.ok
              THEN /\ outcome' = Some([kind |-> "returned", err |-> "",
                                       record |-> res.val])
                   /\ pc' = "done"
                   /\ exc' = None
              ELSE /\ outcome' = None
                   /\ pc' = "except"
                   /\ exc' = Some(res.err)
    /\ UNCHANGED <<data, sentiment_score, forecast, optimal_price, stages, log>>
    /\ UNCHANGED <<pricing_vars, race_vars>>

\* the except clause: the call ends by raising the error it caught
Except ==
    /\ pc = "except"
    /\ LET h == HandleException(exc[1])
       IN /\ log' = log \o h.logs
          /\ outcome' = Some([kind |-> "raised", err |-> h.err, record |-> None])
    /\ pc' = "done"
    /\ exc' = None
    /\ UNCHANGED <<data, sentiment_score, forecast, optimal_price, stages>>
    /\ UNCHANGED <<pricing_vars, race_vars>>

\* the arguments a caller gives engine.pricing_strategist.update_constraints
EngineBounds == {None, Some(BasePrice), Some(DefaultMax + 10)}

\* update_constraints on the engine's strategist, between two cycles; what
\* the model remembers of the finished cycle is dropped
EngineUpdateConstraints ==
    /\ pc \in {"idle", "done"}
    /\ \E new_min \in EngineBounds, new_max \in EngineBounds :
         /\ min_price' = UpdateMin(min_price, new_min)
         /\ max_price' = UpdateMax(max_price, new_max)
         /\ last' = Call("update", EmptyDict, new_min, new_max, Ok(0))
    /\ pc' = "idle"
    /\ data' = None
    /\ sentiment_score' = None
    /\ forecast' = None
    /\ optimal_price' = None
    /\ exc' = None
    /\ outcome' = None
    /\ stages' = <<>>
    /\ log' = <<>>
    /\ UNCHANGED <<ctor_ordered, race_vars>>

CycleNext ==
    \/ Fetch
    \/ Sentiment
    \/ Predict
    \/ Price
    \/ Result
    \/ Except
    \/ EngineUpdateConstraints

SpecCycle == CycleInit /\ [][CycleNext]_vars

---------------------------------------------------------------------------
(* Two threads on one PricingStrategist: one in calculate_optimal_price, one *)
(* in update_constraints.  Each read and each write of an attribute is a     *)
(* step of its own; the interpreter may switch threads between any two.      *)

RaceBoundVals == {DefaultMin + 10 * k : k \in 0..BoundSteps}
RaceArgs      == {None, Some(-10)} \cup {Some(b) : b \in RaceBoundVals}
\* the mappings the racing calculation is given
RaceData ==
    {[k \in {"sentiment_score"} |-> Num(v)] : v \in ScoreVals}
        \cup {[k \in Keys |-> Num(IF k = "forecast" THEN 100 ELSE v)] : v \in ScoreVals}

RaceInit ==
    /\ \E lo \in RaceBoundVals, hi \in RaceBoundVals :
         /\ min_price = lo
         /\ max_price = hi
         /\ ctor_ordered = (lo <= hi)
         /\ last = [op |-> "init", md |-> EmptyDict, new_min |-> Some(lo),
                    new_max |-> Some(hi), pre_min |-> lo, pre_max |-> hi,
                    res |-> Ok(0)]
    /\ CycleIdle
    /\ c_pc = "start"
    /\ c_optimal = 0
    /\ c_min = None
    /\ c_max = None
    /\ c_ret = None
    /\ u_pc = "start"
    /\ u_args = <<None, None>>
    /\ pre = <<0, 0>>

\* calculate_optimal_price, lines 33-37: the raw price, from the arguments alone
CalcBegin ==
    /\ c_pc = "start"
    /\ \E md \in RaceData :
         c_optimal' = OptimalPrice(Get(md, "sentiment_score", Num(0)).v,
                                   Get(md, "forecast", Num(0)).v)
    /\ c_pc' = "read_min"
    /\ UNCHANGED <<c_min, c_max, c_ret, u_pc, u_args, pre>>
    /\ UNCHANGED <<pricing_vars, cycle_vars>>

\* line 40: self.min_price, the first argument of max, is read first
CalcReadMin ==
    /\ c_pc = "read_min"
    /\ c_min' = Some(min_price)
    /\ c_pc' = "read_max"
    /\ UNCHANGED <<c_optimal, c_max, c_ret, u_pc, u_args, pre>>
    /\ UNCHANGED <<pricing_vars, cycle_vars>>

\* line 40: self.max_price, an argument of the inner min, is read next
CalcReadMax ==
    /\ c_pc = "read_max"
    /\ c_max' = Some(max_price)
    /\ c_pc' = "clamp"
    /\ UNCHANGED <<c_optimal, c_min, c_ret, u_pc, u_args, pre>>
    /\ UNCHANGED <<pricing_vars, cycle_vars>>

\* lines 40-42: the clamp of the values read, returned
CalcReturn ==
    /\ c_pc = "clamp"
    /\ c_ret' = Some(ApplyConstraints(c_optimal, c_min[1], c_max[1]))
    /\ c_pc' = "done"
    /\ UNCHANGED <<c_optimal, c_min, c_max, u_pc, u_args, pre>>
    /\ UNCHANGED <<pricing_vars, cycle_vars>>

\* update_constraints is called
UpdBegin ==
    /\ u_pc = "start"
    /\ \E new_min \in RaceArgs, new_max \in RaceArgs : u_args' = <<new_min, new_max>>
    /\ pre' = <<min_price, max_price>>
    /\ u_pc' = "write_min"
    /\ UNCHANGED <<c_pc, c_optimal, c_min, c_max, c_ret>>
    /\ UNCHANGED <<pricing_vars, cycle_vars>>

\* lines 56-57: the write of min_price
UpdWriteMin ==
    /\ u_pc = "write_min"
    /\ min_price' = UpdateMin(min_price, u_args[1])
    /\ u_pc' = "write_max"
    /\ UNCHANGED <<max_price, ctor_ordered, last, u_args, pre>>
    /\ UNCHANGED <<c_pc, c_optimal, c_min, c_max, c_ret, cycle_vars>>

\* lines 58-59: the write of max_price
UpdWriteMax ==
    /\ u_pc = "write_max"
    /\ max_price' = UpdateMax(max_price, u_args[2])
    /\ u_pc' = "done"
    /\ UNCHANGED <<min_price, ctor_ordered, last, u_args, pre>>
    /\ UNCHANGED <<c_pc, c_optimal, c_min, c_max, c_ret, cycle_vars>>

RaceNext ==
    \/ CalcBegin
    \/ CalcReadMin
    \/ CalcReadMax
    \/ CalcReturn
    \/ UpdBegin
    \/ UpdWriteMin
    \/ UpdWriteMax

SpecRace == RaceInit /\ [][RaceNext]_vars

---------------------------------------------------------------------------
(* Claims about PricingStrategist, under Spec *)

CalcReturned == last.op = "calc" /\ last.res.ok
Returned     == last.res.val[1]
\* the arguments of the last calculation, a missing key counting as 0
ArgScore    == IF "sentiment_score" \in DOMAIN last.md
                  THEN last.md["sentiment_score"] ELSE Num(0)
ArgForecast == IF "forecast" \in DOMAIN last.md THEN last.md["forecast"] ELSE Num(0)
ArgsNumeric == ArgScore.num /\ ArgForecast.num
\* 1.0 + 0.1 * sentiment_score + t, t = 0.05 if forecast > 0 and 0 otherwise
RawPrice    == 100 + (ArgScore.v \div 10) + (IF ArgForecast.v > 0 THEN 5 ELSE 0)

\* C1: every price calculate_optimal_price returns satisfies
\* min_price <= price <= max_price for the bounds held at the call, whatever
\* the construction arguments and the update_constraints calls before it
C1_PriceWithinBounds ==
    CalcReturned => (last.pre_min <= Returned /\ Returned <= last.pre_max)

\* C2: calculate_optimal_price returns clamp(1.0 + 0.1*s + t, min_price,
\* max_price): the raw price when it lies between the bounds, the bound it
\* passes otherwise (min_price when the bounds are inverted, as max(min_price,
\* min(raw, max_price)) gives); absent keys count as 0; and with the default
\* bounds (0, 0) gives 1.0, (1.0, 1) gives 1.1 and (-1.0, 0) gives 0.9
C2_PriceFormula ==
    (last.op = "calc" /\ ArgsNumeric) =>
        /\ last.res.ok
        /\ Returned = (IF last.pre_min > last.pre_max THEN last.pre_min
                       ELSE IF RawPrice < last.pre_min THEN last.pre_min
                       ELSE IF RawPrice > last.pre_max THEN last.pre_max
                       ELSE RawPrice)
        /\ (last.pre_min = 90 /\ last.pre_max = 110) =>
              /\ (ArgScore.v = 0 /\ ArgForecast.v = 0) => Returned = 100
              /\ (ArgScore.v = 100 /\ ArgForecast.v = 100) => Returned = 110
              /\ (ArgScore.v = -100 /\ ArgForecast.v = 0) => Returned = 90

\* a calculation under the default bounds with the forecast key absent and a
\* score of 0.5: the raw price 1.05 lies between the bounds and is returned
C2_Witness ==
    /\ last.op = "calc"
    /\ last.pre_min = 90 /\ last.pre_max = 110
    /\ DOMAIN last.md = {"sentiment_score"}
    /\ last.md["sentiment_score"] = Num(50)
    /\ last.res.ok /\ Returned = 105

\* C6: update_constraints sets min_price to max(new_min, 0) when new_min is
\* given and leaves it when it is None, sets max_price to new_max when new_max
\* is given and leaves it when it is None, and never raises
C6_UpdateEffect ==
    last.op = "update" =>
        /\ last.res.ok
        /\ min_price = (IF last.new_min = None THEN last.pre_min
                        ELSE IF last.new_min[1] < 0 THEN 0 ELSE last.new_min[1])
        /\ max_price = (IF last.new_max = None THEN last.pre_max
                        ELSE last.new_max[1])

\* update_constraints(new_min=-0.1) on a positive min_price: min_price becomes
\* 0.0 and max_price stays
C6_Witness ==
    /\ last.op = "update"
    /\ last.new_min = Some(-10) /\ last.new_max = None
    /\ last.pre_min > 0 /\ min_price = 0
    /\ max_price = last.pre_max /\ max_price # Inf

\* C7: min_price is never negative, whatever the construction arguments and
\* the calls made afterwards
C7_MinPriceNonNegative == min_price >= 0

\* C10: a state with min_price > max_price is reachable through
\* update_constraints; in such a state calculate_optimal_price returns
\* min_price for every (numeric) input without raising; and
\* calculate_optimal_price never changes the bounds
C10_InvertedReturnsMin ==
    last.op = "calc" =>
        /\ min_price = last.pre_min /\ max_price = last.pre_max
        /\ (last.pre_min > last.pre_max /\ ArgsNumeric) =>
              (last.res.ok /\ Returned = last.pre_min)

\* bounds that the constructor was given in order and update_constraints
\* inverted, and a calculation whose raw price differs from the min_price it
\* returns
C10_Witness ==
    /\ ctor_ordered
    /\ last.op = "calc" /\ ArgsNumeric
    /\ last.pre_min > last.pre_max
    /\ RawPrice # last.pre_min
    /\ last.res.ok /\ Returned = last.pre_min

---------------------------------------------------------------------------
(* Claims about run_revenue_cycle, under SpecCycle *)

StageOrder == <<"fetch", "sentiment", "predict", "price">>
Failed(i)  == ~stages[i].res.ok
AllStagesReturned ==
    Len(stages) = 4 /\ \A i \in 1..4 : stages[i].res.ok

\* C3: once a stage has raised, no later stage is invoked and none is invoked
\* again; the cycle then goes to its end without a result record, and ends by
\* raising the error the stage raised
C3_FailureAborts ==
    \A i \in DOMAIN stages :
        Failed(i) =>
            /\ i = Len(stages)
            /\ \A j \in DOMAIN stages : j # i => stages[j].name # stages[i].name
            /\ pc \in {"except", "done"}
            /\ pc = "except" => (exc = Some(stages[i].res.err) /\ outcome = None)
            /\ pc = "done" =>
                 outcome = Some([kind |-> "raised", err |-> stages[i].res.err,
                                 record |-> None])

\* a finished cycle whose fourth stage, Price, raised TypeError: the caller
\* gets TypeError
C3_Witness ==
    /\ pc = "done"
    /\ Len(stages) = 4
    /\ stages[4].name = "price" /\ Failed(4)
    /\ outcome # None /\ outcome[1].kind = "raised" /\ outcome[1].err = "TypeError"

\* C4: a cycle whose four stages all returned ends by returning a record with
\* the Price stage's price, the Predict stage's forecast and a timestamp; and
\* every finished cycle has returned a complete record or raised
C4_CompleteRecord ==
    pc = "done" =>
        /\ outcome # None
        /\ outcome[1].kind \in {"returned", "raised"}
        /\ AllStagesReturned =>
             /\ outcome[1].kind = "returned"
             /\ outcome[1].record # None
             /\ outcome[1].record[1].optimal_price = stages[4].res.val[1]
             /\ outcome[1].record[1].market_forecast = stages[3].res.val[1].forecast
             /\ outcome[1].record[1].timestamp \in 1..MaxClock

\* C5: when get_historical_data returns something that is not a DataFrame,
\* fetch_market_data raises ValueError, `data` is never bound, control leaves
\* the try block and no other stage is invoked
C5_NonTabularStops ==
    (stages # <<>> /\ stages[1].answer.ok /\ ~stages[1].answer.val[1].isdf) =>
        /\ stages[1].res = Raised("ValueError", LogError("MarketAnalyzer"))
        /\ Len(stages) = 1
        /\ data = None
        /\ pc \in {"except", "done"}
        /\ pc = "except" => exc = Some("ValueError")
        /\ (outcome # None => outcome[1].kind # "returned")

\* a cycle whose collaborator returned a non-DataFrame: ValueError is in
\* flight, with Fetch the only stage invoked
C5_Witness ==
    /\ pc = "except"
    /\ Len(stages) = 1
    /\ stages[1].answer = Ok(NotAFrame)
    /\ exc = Some("ValueError")
    /\ data = None

\* C9: the stages are invoked in the order Fetch, Sentiment, Predict, Price,
\* each at most once and only after the one before returned; Sentiment gets
\* the news of the data Fetch returned, Predict gets that data, and Price gets
\* the score Sentiment returned and the forecast Predict returned
C9_StageOrder ==
    /\ Len(stages) <= 4
    /\ \A i \in DOMAIN stages :
         /\ stages[i].name = StageOrder[i]
         /\ i > 1 => stages[i - 1].res.ok
    /\ Len(stages) >= 2 => stages[2].arg = stages[1].res.val[1].news
    /\ Len(stages) >= 3 => stages[3].arg = stages[1].res.val[1]
    /\ Len(stages) >= 4 =>
         /\ DOMAIN stages[4].arg = {"sentiment_score", "forecast"}
         /\ stages[4].arg["sentiment_score"] = stages[2].res.val[1]
         /\ stages[4].arg["forecast"] = Num(stages[3].res.val[1].forecast)

\* all four stages invoked and returned, on a series whose mean (-2.0) and
\* spread (1.0) differ
C9_Witness ==
    /\ AllStagesReturned
    /\ stages[3].answer = Ok(<<-300, -100>>)
    /\ stages[3].res.val[1].forecast = -200
    /\ stages[3].res.val[1].confidence = 100
    /\ stages[4].arg["forecast"] = Num(-200)

---------------------------------------------------------------------------
(* Claims about the race, under SpecRace *)

\* the bounds before the update and the bounds it leaves; before the update
\* is called they are the current bounds
PreMin  == IF u_pc = "start" THEN min_price ELSE pre[1]
PreMax  == IF u_pc = "start" THEN max_price ELSE pre[2]
PostMin == IF u_args[1] = None THEN PreMin
           ELSE IF u_args[1][1] < 0 THEN 0 ELSE u_args[1][1]
PostMax == IF u_args[2] = None THEN PreMax ELSE u_args[2][1]
Outside(p, lo, hi) == p < lo \/ p > hi
OutsideBoth ==
    /\ c_ret # None
    /\ Outside(c_ret[1], PreMin, PreMax)
    /\ Outside(c_ret[1], PostMin, PostMax)
\* the two values read belong to no single configuration
MixedReads ==
    /\ c_min # None /\ c_max # None
    /\ ~(c_min = Some(PreMin) /\ c_max = Some(PreMax))
    /\ ~(c_min = Some(PostMin) /\ c_max = Some(PostMax))

\* C8: the calculation reads each bound either as it was before the update or
\* as the update leaves it, each on its own, and returns the clamp of the two
\* values read; between two ordered ranges a price outside both comes from
\* mixed reads only (and such a price is reached: C8_Witness)
C8_RaceReads ==
    /\ c_min # None => c_min[1] \in {PreMin, PostMin}
    /\ c_max # None => c_max[1] \in {PreMax, PostMax}
    /\ c_ret # None =>
         /\ c_ret[1] = (IF c_min[1] > c_max[1] THEN c_min[1]
                        ELSE IF c_optimal < c_min[1] THEN c_min[1]
                        ELSE IF c_optimal > c_max[1] THEN c_max[1]
                        ELSE c_optimal)
         /\ (PreMin <= PreMax /\ PostMin <= PostMax /\ OutsideBoth) => MixedReads

\* an update from one ordered range to another, overlapped by a calculation
\* that read min_price from one and max_price from the other and returned a
\* price outside both ranges
C8_Witness ==
    /\ c_pc = "done" /\ u_pc = "done"
    /\ PreMin <= PreMax /\ PostMin <= PostMax
    /\ MixedReads
    /\ OutsideBoth

==========================================================================
